---- MODULE Spec2Model ----
(***************************************************************************)
(* karma-esbuild: the build unit (class Bundler of src/bundle.ts and class *)
(* Bundle, the second class of src/index.ts) and the registry of units     *)
(* (class BundlerMap), as state machines over the JavaScript event loop:   *)
(* a call runs to its first await, a continuation is a microtask, taken   *)
(* from the head of a FIFO queue, and a backend completion is a macrotask, *)
(* which runs only when the microtask queue is empty.                      *)
(***************************************************************************)
EXTENDS Integers, Sequences, FiniteSets, TLC

\* Bounds of the model.
MaxDeferred == 2    \* Deferred objects one unit allocates
MaxWrites == 3      \* write() invocations on one unit
MaxStops == 1       \* stop() invocations on one unit
MaxLookups == 2     \* getOrInit() invocations on the registry
MaxBarriers == 2    \* Deferred objects the registry allocates

VARIABLES
    impl,        \* the class of the unit: "Bundler" (bundle.ts) or "Bundle" (index.ts)
    this,        \* the unit's fields
    deferreds,   \* every Deferred the unit allocated, by identity
    builds,      \* every backend compile the unit started, by identity
    writes,      \* the write() invocations
    stops,       \* the stop() invocations
    lastRead,    \* the Deferred the last read() handed out, 0 before any
    microtasks,  \* the event loop's microtask queue
    inTick,      \* a caller's tick is running and has queued microtasks
    registry,    \* the BundlerMap's fields _dirty and deferred
    barriers,    \* every Deferred the registry allocated: is it resolved
    bundlers,    \* BundlerMap.bundlers: file -> unit
    potentials,  \* BundlerMap.potentials
    lookups,     \* the getOrInit() invocations
    lastCall,    \* the registry method called last: "dirty" or "other"
    stopCalls,   \* the BundlerMap.stop() invocations
    buildBundle  \* the preprocessor's debounced buildBundle has a timer pending

uvars == <<impl, this, deferreds, builds, writes, stops, lastRead, microtasks, inTick>>

\* The registry's variables.
rvars == <<registry, barriers, bundlers, potentials, lookups, lastCall, stopCalls>>

\* What no method of a unit touches: the registry and the preprocessor's timer.
mvars == <<rvars, buildBundle>>

vars == <<uvars, mvars>>

null == 0

\* A caller's code runs in a tick of its own (a request, a timer, a watcher
\* event): when the microtask queue is empty, or later in the same tick.
HostTick == microtasks = <<>> \/ inTick

\* After a call the caller's tick goes on for as long as microtasks wait.
StillInTick == inTick' = (microtasks' # <<>>)

NoArtifact == [kind |-> "none", build |-> 0]

\* new Deferred(): an unresolved promise. For the record: born is the number
\* of compiles started before the allocation, idle whether none was running.
NewDeferred(born, idle) ==
    [state |-> "pending", value |-> NoArtifact, to |-> 0, resolveCalls |-> 0,
     born |-> born, idle |-> idle]

NoRet == [kind |-> "none", deferred |-> 0, value |-> NoArtifact]

\* A promise resolved with another promise follows it; resolved with itself it
\* is rejected (a chaining cycle); a second resolve() of a promise is ignored.
Resolve(ds, d, res) ==
    IF ds[d].state # "pending"
    THEN [ds EXCEPT ![d].resolveCalls = @ + 1]
    ELSE IF res.kind = "value"
    THEN [ds EXCEPT ![d].state = "value", ![d].value = res.value,
                    ![d].resolveCalls = @ + 1]
    ELSE IF res.deferred = d
    THEN [ds EXCEPT ![d].state = "cycle", ![d].resolveCalls = @ + 1]
    ELSE [ds EXCEPT ![d].state = "chain", ![d].to = res.deferred,
                    ![d].resolveCalls = @ + 1]

RECURSIVE Outcome(_, _)
\* What awaiting promise d gives: pending, a value, or a rejection.
Outcome(ds, d) ==
    CASE ds[d].state = "pending" -> [kind |-> "pending", value |-> NoArtifact]
      [] ds[d].state = "value" -> [kind |-> "value", value |-> ds[d].value]
      [] ds[d].state = "cycle" -> [kind |-> "rejected", value |-> NoArtifact]
      [] OTHER -> Outcome(ds, ds[d].to)

Settled(ds, d) == Outcome(ds, d).kind # "pending"

\* The stop() invocations whose awaited promise has just settled become
\* microtasks, in the order of their calls.
RECURSIVE ReleasedStops(_, _, _)
ReleasedStops(ss, ds, i) ==
    IF i > Len(ss) THEN <<>>
    ELSE (IF ss[i].pc = "awaitDeferred" /\ Settled(ds, ss[i].deferred)
          THEN <<[kind |-> "stop", id |-> i]>> ELSE <<>>)
         \o ReleasedStops(ss, ds, i + 1)

MarkReleased(ss, ds) ==
    [i \in 1..Len(ss) |->
        IF ss[i].pc = "awaitDeferred" /\ Settled(ds, ss[i].deferred)
        THEN [ss[i] EXCEPT !.pc = "ready"] ELSE ss[i]]

\* this.incrementalBuild ? rebuild() : esbuild.build(config)
CompileApi(t) == IF t.incrementalBuild # null THEN "rebuild" ELSE "build"

\* The compile a call of bundle() starts, awaited first by write invocation w.
NewBuild(t, w) ==
    [api |-> CompileApi(t), state |-> "running", ok |-> FALSE,
     waiters |-> <<w>>, disposed |-> 0]

\* bundle() without its catch: a failed compile rejects.
BundleResultNoCatch(b) ==
    [kind |-> IF builds[b].ok THEN "normal" ELSE "rejected", build |-> b]

\* What bundle() returns for compile b: processResult's artifact, or, from the
\* catch, an artifact that logs the error message, with an empty map.
BundleResult(b) ==
    [kind |-> IF builds[b].ok THEN "normal" ELSE "degraded", build |-> b]

CompileActive == {b \in 1..Len(builds) : builds[b].state = "running"}

UnitInit ==
    /\ impl \in {"Bundler", "Bundle"}
    /\ this = [_dirty |-> TRUE, buildsInProgress |-> 0, buildInProgress |-> null,
               deferred |-> 1, incrementalBuild |-> null]
    /\ deferreds = <<NewDeferred(0, TRUE)>>
    /\ builds = <<>>
    /\ writes = <<>>
    /\ stops = <<>>
    /\ lastRead = 0
    /\ microtasks = <<>>
    /\ inTick = FALSE

-----------------------------------------------------------------------------
(* class Bundler, src/bundle.ts *)

\* dirty(), lines 39-43 of bundle.ts and 306-309 of index.ts: nothing when
\* the unit is dirty, else the flag is set and a new Deferred allocated.
\* dirty() that replaces the Deferred and leaves the flag clear.
DirtiedKeepsClean(t, ds, born, idle) ==
    IF t._dirty
    THEN [this |-> t, deferreds |-> ds]
    ELSE [this |-> [t EXCEPT !.deferred = Len(ds) + 1],
          deferreds |-> Append(ds, NewDeferred(born, idle))]

DirtiedAlways(t, ds, born, idle) ==
    [this |-> [t EXCEPT !._dirty = TRUE, !.deferred = Len(ds) + 1],
     deferreds |-> Append(ds, NewDeferred(born, idle))]

Dirtied(t, ds, born, idle) ==
    IF t._dirty
    THEN [this |-> t, deferreds |-> ds]
    ELSE [this |-> [t EXCEPT !._dirty = TRUE, !.deferred = Len(ds) + 1],
          deferreds |-> Append(ds, NewDeferred(born, idle))]

\* Bundler.dirty(), on the unit's variables.
BundlerDirtyCall ==
    /\ HostTick
    /\ impl = "Bundler"
    /\ this._dirty \/ Len(deferreds) < MaxDeferred
    /\ this' = Dirtied(this, deferreds, Len(builds), CompileActive = {}).this
    /\ deferreds' = Dirtied(this, deferreds, Len(builds), CompileActive = {}).deferreds
    /\ UNCHANGED <<impl, builds, writes, stops, lastRead, microtasks>>
    /\ StillInTick

\* Bundler.dirty()
BundlerDirty ==
    /\ UNCHANGED mvars
    /\ BundlerDirtyCall

\* The log of the unit: the lines of beforeProcess() ("Compiling to ...") and
\* afterProcess() ("Compiling done"), kept as the position in the log of the
\* line each write() invocation wrote, 0 when it wrote none.
LogLen ==
    Cardinality({w \in 1..Len(writes) : writes[w].began # 0})
    + Cardinality({w \in 1..Len(writes) : writes[w].ended # 0})

LogAt(k) ==
    IF \E w \in 1..Len(writes) : writes[w].began = k THEN "start" ELSE "done"

\* Bundler.write() up to its await: the early return of a clean unit, or
\* buildsInProgress++ and bundle(), which clears _dirty and starts a compile.
BundlerWriteCall ==
    /\ HostTick
    /\ impl = "Bundler"
    /\ Len(writes) < MaxWrites
    /\ LET w == Len(writes) + 1 IN
       IF ~this._dirty
       THEN /\ writes' = Append(writes,
                  [via |-> "call", pc |-> "returned", deferred |-> this.deferred,
                   build |-> 0, called |-> Len(builds), wasDirty |-> FALSE,
                   atDeferred |-> this.deferred, active |-> Cardinality(CompileActive),
                   began |-> 0, ended |-> 0,
                   ret |-> [kind |-> "follows", deferred |-> this.deferred,
                            value |-> NoArtifact]])
            /\ UNCHANGED <<this, builds>>
       ELSE /\ writes' = Append(writes,
                  [via |-> "call", pc |-> "awaitBundle", deferred |-> this.deferred,
                   build |-> Len(builds) + 1, called |-> Len(builds),
                   wasDirty |-> TRUE, atDeferred |-> this.deferred,
                   active |-> Cardinality(CompileActive),
                   began |-> IF this.buildsInProgress = 0 THEN LogLen + 1 ELSE 0,
                   ended |-> 0, ret |-> NoRet])
            /\ builds' = Append(builds, NewBuild(this, w))
            /\ this' = [this EXCEPT !.buildsInProgress = @ + 1, !._dirty = FALSE]
    /\ UNCHANGED <<impl, deferreds, stops, lastRead, microtasks>>
    /\ StillInTick

\* Bundler.write() up to its await.
BundlerWrite ==
    /\ UNCHANGED mvars
    /\ BundlerWriteCall

\* Bundler.write() after `await this.bundle()`.
BundlerWriteResume ==
    /\ UNCHANGED mvars
    /\ inTick' = FALSE
    /\ impl = "Bundler"
    /\ microtasks # <<>>
    /\ Head(microtasks).kind = "write"
    /\ LET w == Head(microtasks).id
           d == writes[w].deferred
           n == this.buildsInProgress - 1
           result == BundleResult(writes[w].build)
       IN
       /\ writes[w].pc = "awaitBundle"
       /\ IF n > 0 \/ this._dirty
          THEN /\ deferreds' = Resolve(deferreds, d,
                     [kind |-> "chain", deferred |-> this.deferred, value |-> NoArtifact])
               /\ writes' = [writes EXCEPT ![w].pc = "returned",
                     ![w].ret = [kind |-> "follows", deferred |-> d, value |-> NoArtifact]]
          ELSE /\ deferreds' = Resolve(deferreds, d,
                     [kind |-> "value", deferred |-> 0, value |-> result])
               /\ writes' = [writes EXCEPT ![w].pc = "returned",
                     ![w].ended = LogLen + 1,
                     ![w].ret = [kind |-> "value", deferred |-> 0, value |-> result]]
       /\ this' = [this EXCEPT !.buildsInProgress = n]
       /\ stops' = MarkReleased(stops, deferreds')
       /\ microtasks' = Tail(microtasks) \o ReleasedStops(stops, deferreds', 1)
    /\ UNCHANGED <<impl, builds, lastRead>>

-----------------------------------------------------------------------------
(* class Bundle, src/index.ts *)

\* Bundle.write() at `await this.buildInProgress`: the invocation joins the
\* promise's reactions, or the microtask queue when the promise is fulfilled.
AwaitInProgress(w) ==
    LET b == this.buildInProgress IN
    IF builds[b].state = "returned"
    THEN /\ microtasks' = Append(microtasks, [kind |-> "write", id |-> w])
         /\ UNCHANGED builds
    ELSE /\ builds' = [builds EXCEPT ![b].waiters = Append(@, w)]
         /\ UNCHANGED microtasks

\* Bundle.dirty()
BundleDirty ==
    /\ UNCHANGED mvars
    /\ HostTick
    /\ impl = "Bundle"
    /\ IF this._dirty
       THEN UNCHANGED <<this, deferreds, builds, writes, microtasks>>
       ELSE /\ Len(deferreds) < MaxDeferred
            /\ this' = Dirtied(this, deferreds, Len(builds), CompileActive = {}).this
            /\ deferreds' = Dirtied(this, deferreds, Len(builds), CompileActive = {}).deferreds
            /\ IF this.buildInProgress # null
               THEN /\ Len(writes) < MaxWrites
                    /\ writes' = Append(writes,
                          [via |-> "dirty", pc |-> "awaitInProgress",
                           deferred |-> 0, build |-> this.buildInProgress,
                           called |-> Len(builds), wasDirty |-> TRUE,
                           atDeferred |-> Len(deferreds) + 1,
                           active |-> Cardinality(CompileActive),
                           began |-> 0, ended |-> 0, ret |-> NoRet])
                    /\ AwaitInProgress(Len(writes) + 1)
               ELSE UNCHANGED <<builds, writes, microtasks>>
    /\ UNCHANGED <<impl, stops, lastRead>>
    /\ StillInTick

\* Bundle.write(), lines 335-340: capture the Deferred, clear _dirty, start
\* bundle() and keep its promise as buildInProgress.
BundleStartBuild(w, ws) ==
    /\ writes' = [ws EXCEPT ![w].pc = "awaitBuild", ![w].deferred = this.deferred,
                            ![w].build = Len(builds) + 1]
    /\ builds' = Append(builds, NewBuild(this, w))
    /\ this' = [this EXCEPT !._dirty = FALSE, !.buildInProgress = Len(builds) + 1]

\* Bundle.write() up to its first await.
BundleWrite ==
    /\ UNCHANGED mvars
    /\ HostTick
    /\ impl = "Bundle"
    /\ Len(writes) < MaxWrites
    /\ LET w == Len(writes) + 1
           inv == [via |-> "call", pc |-> "awaitInProgress", deferred |-> 0,
                   build |-> this.buildInProgress, called |-> Len(builds),
                   wasDirty |-> this._dirty, atDeferred |-> this.deferred,
                   active |-> Cardinality(CompileActive),
                   began |-> IF this.buildInProgress = null THEN LogLen + 1 ELSE 0,
                   ended |-> 0, ret |-> NoRet]
       IN
       IF this.buildInProgress = null
       THEN /\ BundleStartBuild(w, Append(writes, inv))
            /\ UNCHANGED microtasks
       ELSE /\ writes' = Append(writes, inv)
            /\ AwaitInProgress(w)
            /\ UNCHANGED this
    /\ UNCHANGED <<impl, deferreds, stops, lastRead>>
    /\ StillInTick

\* Bundle.write() after `await this.buildInProgress`.
BundleWriteWaited ==
    /\ UNCHANGED mvars
    /\ inTick' = FALSE
    /\ impl = "Bundle"
    /\ microtasks # <<>>
    /\ Head(microtasks).kind = "write"
    /\ LET w == Head(microtasks).id IN
       /\ writes[w].pc = "awaitInProgress"
       /\ IF this.buildInProgress # null
          THEN /\ writes' = [writes EXCEPT ![w].pc = "returned",
                     ![w].ret = [kind |-> "follows", deferred |-> this.deferred,
                                 value |-> NoArtifact]]
               /\ UNCHANGED <<this, builds>>
          ELSE BundleStartBuild(w, writes)
    /\ microtasks' = Tail(microtasks)
    /\ UNCHANGED <<impl, deferreds, stops, lastRead>>

\* Bundle.write() after `await build`.
BundleWriteResume ==
    /\ UNCHANGED mvars
    /\ inTick' = FALSE
    /\ impl = "Bundle"
    /\ microtasks # <<>>
    /\ Head(microtasks).kind = "write"
    /\ LET w == Head(microtasks).id
           d == writes[w].deferred
           result == BundleResult(writes[w].build)
       IN
       /\ writes[w].pc = "awaitBuild"
       /\ IF d # this.deferred
          THEN /\ deferreds' = Resolve(deferreds, d,
                     [kind |-> "chain", deferred |-> this.deferred, value |-> NoArtifact])
               /\ writes' = [writes EXCEPT ![w].pc = "returned",
                     ![w].ret = [kind |-> "follows", deferred |-> this.deferred,
                                 value |-> NoArtifact]]
          ELSE /\ deferreds' = Resolve(deferreds, d,
                     [kind |-> "value", deferred |-> 0, value |-> result])
               /\ writes' = [writes EXCEPT ![w].pc = "returned",
                     ![w].ended = LogLen + 1,
                     ![w].ret = [kind |-> "value", deferred |-> 0, value |-> result]]
       /\ this' = [this EXCEPT !.buildInProgress = null]
       /\ stops' = MarkReleased(stops, deferreds')
       /\ microtasks' = Tail(microtasks) \o ReleasedStops(stops, deferreds', 1)
    /\ UNCHANGED <<impl, builds, lastRead>>

-----------------------------------------------------------------------------
(* Both classes: read(), stop(), bundle() *)

\* read()
Read ==
    /\ UNCHANGED mvars
    /\ HostTick
    /\ lastRead' = this.deferred
    /\ UNCHANGED <<impl, this, deferreds, builds, writes, stops, microtasks>>
    /\ StillInTick

\* this.incrementalBuild?.rebuild.dispose(); this.incrementalBuild = null
Dispose(bs, t) ==
    IF t.incrementalBuild # null
    THEN [bs EXCEPT ![t.incrementalBuild].disposed = @ + 1]
    ELSE bs

\* Whether stop() has something to wait for.
StopWaits(t) ==
    IF impl = "Bundler" THEN t.buildsInProgress > 0 \/ t._dirty
    ELSE t.buildInProgress # null \/ t._dirty

\* stop() up to its await, or to its end when it does not wait.
Stop ==
    /\ UNCHANGED mvars
    /\ HostTick
    /\ Len(stops) < MaxStops
    /\ LET s == Len(stops) + 1 IN
       IF StopWaits(this)
       THEN /\ IF Settled(deferreds, this.deferred)
               THEN /\ stops' = Append(stops, [pc |-> "ready", deferred |-> this.deferred,
                                             called |-> Len(builds)])
                    /\ microtasks' = Append(microtasks, [kind |-> "stop", id |-> s])
               ELSE /\ stops' = Append(stops,
                          [pc |-> "awaitDeferred", deferred |-> this.deferred,
                           called |-> Len(builds)])
                    /\ UNCHANGED microtasks
            /\ UNCHANGED <<this, builds>>
       ELSE /\ stops' = Append(stops, [pc |-> "done", deferred |-> 0, called |-> Len(builds)])
            /\ builds' = Dispose(builds, this)
            /\ this' = [this EXCEPT !.incrementalBuild = null]
            /\ UNCHANGED microtasks
    /\ UNCHANGED <<impl, deferreds, writes, lastRead>>
    /\ StillInTick

\* stop() after `await this.deferred.promise`; a rejected promise makes the
\* await throw, and stop() rejects without disposing.
StopResume ==
    /\ UNCHANGED mvars
    /\ inTick' = FALSE
    /\ microtasks # <<>>
    /\ Head(microtasks).kind = "stop"
    /\ LET s == Head(microtasks).id IN
       IF Outcome(deferreds, stops[s].deferred).kind = "rejected"
       THEN /\ stops' = [stops EXCEPT ![s].pc = "rejected"]
            /\ UNCHANGED <<this, builds>>
       ELSE /\ stops' = [stops EXCEPT ![s].pc = "done"]
            /\ builds' = Dispose(builds, this)
            /\ this' = [this EXCEPT !.incrementalBuild = null]
    /\ microtasks' = Tail(microtasks)
    /\ UNCHANGED <<impl, deferreds, writes, lastRead>>

\* The backend settles a compile: a macrotask.
CompileSettle ==
    /\ UNCHANGED mvars
    /\ inTick' = FALSE
    /\ microtasks = <<>>
    /\ \E b \in CompileActive, ok \in BOOLEAN :
        /\ builds' = [builds EXCEPT ![b].state = "settled", ![b].ok = ok]
        /\ microtasks' = <<[kind |-> "bundle", id |-> b]>>
    /\ UNCHANGED <<impl, this, deferreds, writes, stops, lastRead>>

\* bundle() after its await: a first successful esbuild.build() is kept as
\* this.incrementalBuild; a failure is caught and becomes an artifact. Its
\* promise is fulfilled and the invocations awaiting it become microtasks.
BundleResume ==
    /\ UNCHANGED mvars
    /\ inTick' = FALSE
    /\ microtasks # <<>>
    /\ Head(microtasks).kind = "bundle"
    /\ LET b == Head(microtasks).id IN
       /\ builds' = [builds EXCEPT ![b].state = "returned"]
       /\ this' = IF builds[b].ok /\ builds[b].api = "build"
                  THEN [this EXCEPT !.incrementalBuild = b] ELSE this
       /\ microtasks' = Tail(microtasks)
              \o [i \in 1..Len(builds[b].waiters) |->
                     [kind |-> "write", id |-> builds[b].waiters[i]]]
    /\ UNCHANGED <<impl, deferreds, writes, stops, lastRead>>

-----------------------------------------------------------------------------
(* createPreprocessor, src/index.ts: the test entry point's Bundler driven  *)
(* by preprocess(), the debounced buildBundle and the "exit" handler        *)

\* The flag `stopped`: the "exit" handler sets it in the call in which it calls
\* bundler.stop(), and nothing else calls bundler.stop().
stopped == Len(stops) > 0

\* preprocess() of a file other than the entry point, lines 141-150:
\* bundler.dirty(), then buildBundle(), which starts or restarts the timer.
PrePreprocess ==
    /\ BundlerDirtyCall
    /\ buildBundle' = TRUE
    /\ UNCHANGED rvars

\* The timer of buildBundle fires, lines 119-124: a macrotask.  It returns at
\* once when stopped is set and calls bundler.write() otherwise.
PreBuildBundle ==
    /\ buildBundle
    /\ microtasks = <<>>
    /\ buildBundle' = FALSE
    /\ IF stopped THEN UNCHANGED uvars ELSE BundlerWriteCall
    /\ UNCHANGED rvars

\* The preprocessor's steps: preprocess() of a file and of the entry point
\* (bundler.read()), the timer, onWatch (bundler.dirty()), the "exit" handler
\* (bundler.stop(), whose promise calls done when it is fulfilled) and the
\* continuations of the Bundler.
PreNext ==
    \/ PrePreprocess
    \/ PreBuildBundle
    \/ BundlerDirty
    \/ Read
    \/ Stop
    \/ StopResume
    \/ BundlerWriteResume
    \/ CompileSettle
    \/ BundleResume

-----------------------------------------------------------------------------
(* class BundlerMap, src/unnamed/part_000 *)

\* The files looked up; only the test entry point is looked up synchronously.
Files == {"a", "b"}

EntryPoint == "a"

\* new Bundler(file, log, config): the fields and the first Deferred; nbuilds
\* counts the unit's compiles.
NewBundler ==
    [this |-> [_dirty |-> TRUE, buildsInProgress |-> 0, buildInProgress |-> null,
               deferred |-> 1, incrementalBuild |-> null],
     deferreds |-> <<NewDeferred(0, TRUE)>>,
     nbuilds |-> 0]

MapInit ==
    /\ registry = [_dirty |-> TRUE, deferred |-> 1]
    /\ barriers = <<FALSE>>
    /\ bundlers = [f \in {} |-> NewBundler]
    /\ potentials = {}
    /\ lookups = <<>>
    /\ lastCall = "other"
    /\ stopCalls = <<>>

\* getOrInitSync() that makes a new unit on every call.
GetOrInitSyncAlwaysNew(bs, file) ==
    [f \in DOMAIN bs \cup {file} |-> IF f = file THEN NewBundler ELSE bs[f]]

\* getOrInitSync(file), lines 27-35.
GetOrInitSync(bs, file) ==
    IF file \in DOMAIN bs THEN bs
    ELSE [f \in DOMAIN bs \cup {file} |-> IF f = file THEN NewBundler ELSE bs[f]]

\* BundlerMap.getOrInitSync()
MapGetOrInitSync ==
    /\ HostTick
    /\ bundlers' = GetOrInitSync(bundlers, EntryPoint)
    /\ potentials' = IF EntryPoint \in DOMAIN bundlers THEN potentials
                     ELSE potentials \ {EntryPoint}
    /\ lastCall' = "other"
    /\ UNCHANGED <<uvars, registry, barriers, lookups, stopCalls, buildBundle>>

\* BundlerMap.getOrInit() up to `await this.deferred.promise`.
MapGetOrInit ==
    /\ HostTick
    /\ Len(lookups) < MaxLookups
    /\ \E file \in Files :
        LET l == Len(lookups) + 1
            inv == [file |-> file, deferred |-> registry.deferred,
                    pc |-> IF barriers[registry.deferred] THEN "ready" ELSE "await",
                    wasDirty |-> registry._dirty, afterDirty |-> lastCall = "dirty",
                    synced |-> FALSE, created |-> FALSE, promoted |-> FALSE]
        IN
        /\ lookups' = Append(lookups, inv)
        /\ microtasks' = IF barriers[registry.deferred]
                         THEN Append(microtasks, [kind |-> "lookup", id |-> l])
                         ELSE microtasks
    /\ lastCall' = "other"
    /\ UNCHANGED <<impl, this, deferreds, builds, writes, stops, lastRead,
                   registry, barriers, bundlers, potentials, stopCalls, buildBundle>>
    /\ StillInTick

\* BundlerMap.getOrInit() after its await: return this.getOrInitSync(file).
MapGetOrInitResume ==
    /\ inTick' = FALSE
    /\ microtasks # <<>>
    /\ Head(microtasks).kind = "lookup"
    /\ LET l == Head(microtasks).id
           file == lookups[l].file
       IN
       /\ bundlers' = GetOrInitSync(bundlers, file)
       /\ potentials' = IF file \in DOMAIN bundlers THEN potentials
                        ELSE potentials \ {file}
       /\ lookups' = [lookups EXCEPT ![l].pc = "returned",
                                     ![l].created = file \notin DOMAIN bundlers,
                                     ![l].promoted = file \in potentials]
    /\ microtasks' = Tail(microtasks)
    /\ UNCHANGED <<impl, this, deferreds, builds, writes, stops, lastRead,
                   registry, barriers, lastCall, stopCalls, buildBundle>>

\* dirty() that sets the flag and keeps the resolved Deferred.
MapDirtiedKeepsDeferred(r, bar) ==
    [registry |-> [r EXCEPT !._dirty = TRUE], barriers |-> bar]

\* dirty() that replaces the Deferred on every call.
MapDirtiedAlways(r, bar) ==
    [registry |-> [_dirty |-> TRUE, deferred |-> Len(bar) + 1],
     barriers |-> Append(bar, FALSE)]

\* BundlerMap.dirty(), lines 41-45, on the fields and the Deferreds.
MapDirtied(r, bar) ==
    IF r._dirty
    THEN [registry |-> r, barriers |-> bar]
    ELSE [registry |-> [_dirty |-> TRUE, deferred |-> Len(bar) + 1],
          barriers |-> Append(bar, FALSE)]

\* BundlerMap.dirty()
MapDirty ==
    /\ HostTick
    /\ registry._dirty \/ Len(barriers) < MaxBarriers
    /\ registry' = MapDirtied(registry, barriers).registry
    /\ barriers' = MapDirtied(registry, barriers).barriers
    /\ lastCall' = "dirty"
    /\ UNCHANGED <<uvars, bundlers, potentials, lookups, stopCalls, buildBundle>>

\* sync() that forgets the units.
SyncBundlersNone(bs) == bs

\* this.bundlers.forEach(b => b.dirty())
SyncBundlers(bs) ==
    [f \in DOMAIN bs |->
        [bs[f] EXCEPT
            !.this = Dirtied(bs[f].this, bs[f].deferreds, bs[f].nbuilds, TRUE).this,
            !.deferreds =
                Dirtied(bs[f].this, bs[f].deferreds, bs[f].nbuilds, TRUE).deferreds]]

\* The getOrInit() invocations held by Deferred d, in the order of their calls.
RECURSIVE Held(_, _, _)
Held(ls, d, i) ==
    IF i > Len(ls) THEN <<>>
    ELSE (IF ls[i].pc = "await" /\ ls[i].deferred = d
          THEN <<[kind |-> "lookup", id |-> i]>> ELSE <<>>)
         \o Held(ls, d, i + 1)

\* BundlerMap.sync()
MapSync ==
    /\ HostTick
    /\ IF ~registry._dirty
       THEN UNCHANGED <<registry, barriers, bundlers, lookups, microtasks>>
       ELSE /\ \A f \in DOMAIN bundlers :
                  bundlers[f].this._dirty \/ Len(bundlers[f].deferreds) < MaxDeferred
            /\ registry' = [registry EXCEPT !._dirty = FALSE]
            /\ bundlers' = SyncBundlers(bundlers)
            /\ barriers' = [barriers EXCEPT ![registry.deferred] = TRUE]
            /\ lookups' = [l \in 1..Len(lookups) |->
                  IF lookups[l].pc = "returned" THEN lookups[l]
                  ELSE [lookups[l] EXCEPT
                          !.synced = TRUE,
                          !.pc = IF lookups[l].deferred = registry.deferred
                                 THEN "ready" ELSE @]]
            /\ microtasks' = microtasks \o Held(lookups, registry.deferred, 1)
    /\ lastCall' = "other"
    /\ UNCHANGED <<impl, this, deferreds, builds, writes, stops, lastRead, potentials,
                   stopCalls, buildBundle>>
    /\ StillInTick

\* has(file), lines 37-39.
Has(file) == file \in DOMAIN bundlers \/ file \in potentials

\* addPotential() without its check of bundlers.
MapAddPotentialAlways ==
    /\ HostTick
    /\ \E file \in Files : potentials' = potentials \cup {file}
    /\ lastCall' = "other"
    /\ UNCHANGED <<uvars, registry, barriers, bundlers, lookups, stopCalls, buildBundle>>

\* BundlerMap.addPotential()
MapAddPotential ==
    /\ HostTick
    /\ \E file \in Files :
        potentials' = IF file \in DOMAIN bundlers THEN potentials
                      ELSE potentials \cup {file}
    /\ lastCall' = "other"
    /\ UNCHANGED <<uvars, registry, barriers, bundlers, lookups, stopCalls, buildBundle>>

\* The continuations of the units' stop() calls that await the Deferred of
\* the unit of file, in the order of the stop() calls.
RECURSIVE StopsHeld(_, _, _)
StopsHeld(ss, file, i) ==
    IF i > Len(ss) THEN <<>>
    ELSE (IF file \in ss[i].waiting
          THEN <<[kind |-> "stop", id |-> i, file |-> file]>> ELSE <<>>)
         \o StopsHeld(ss, file, i + 1)

\* A unit of the registry is written and its compile succeeds, with no other
\* call in between: Bundler.write() from its call to its return.  Resolving
\* the unit's Deferred releases the stop() calls of the unit that await it.
MapBundlerWritten ==
    /\ microtasks = <<>>
    /\ \E file \in DOMAIN bundlers :
        LET u == bundlers[file]
            b == u.nbuilds + 1
        IN
        /\ u.this._dirty
        /\ bundlers' = [bundlers EXCEPT ![file] =
              [this |-> [u.this EXCEPT !._dirty = FALSE,
                      !.incrementalBuild = IF @ = null THEN b ELSE @],
               deferreds |-> Resolve(u.deferreds, u.this.deferred,
                    [kind |-> "value", deferred |-> 0,
                     value |-> [kind |-> "normal", build |-> b]]),
               nbuilds |-> b]]
        /\ microtasks' = StopsHeld(stopCalls, file, 1)
    /\ lastCall' = "other"
    /\ UNCHANGED <<impl, this, deferreds, builds, writes, stops, lastRead, inTick,
                   registry, barriers, potentials, lookups, stopCalls, buildBundle>>

\* Bundler.stop() of a unit after its await, or of a unit with nothing to
\* await: dispose of the session and forget it.
Stopped(bs, file) ==
    [bs EXCEPT ![file].this.incrementalBuild = null]

\* BundlerMap.stop(): stop() of every unit that bundlers holds at the call.
\* A clean unit's stop() runs to its end within the call; a dirty unit's
\* awaits the unit's Deferred.  The invocation records the units it stopped
\* and the getOrInit() calls that were awaiting the registry's Deferred.
MapStop ==
    /\ HostTick
    /\ Len(stopCalls) < MaxStops
    /\ LET units == DOMAIN bundlers
           waiting == {f \in units : bundlers[f].this._dirty}
       IN
       /\ stopCalls' = Append(stopCalls,
              [units |-> units,
               blocked |-> {l \in 1..Len(lookups) : lookups[l].pc = "await"},
               waiting |-> waiting,
               stopped |-> units \ waiting,
               pc |-> IF waiting = {} THEN "resolved" ELSE "await"])
       /\ bundlers' = [f \in units |->
              IF f \in waiting THEN bundlers[f] ELSE Stopped(bundlers, f)[f]]
    /\ lastCall' = "other"
    /\ UNCHANGED <<uvars, registry, barriers, potentials, lookups, buildBundle>>

\* A unit's stop() after `await this.deferred.promise`; Promise.all resolves
\* when the last of the units' stop() calls has.
MapStopResume ==
    /\ inTick' = FALSE
    /\ microtasks # <<>>
    /\ Head(microtasks).kind = "stop"
    /\ LET s == Head(microtasks).id
           file == Head(microtasks).file
       IN
       /\ bundlers' = Stopped(bundlers, file)
       /\ stopCalls' = [stopCalls EXCEPT
              ![s].waiting = @ \ {file},
              ![s].stopped = @ \cup {file},
              ![s].pc = IF stopCalls[s].waiting \subseteq {file}
                        THEN "resolved" ELSE @]
    /\ microtasks' = Tail(microtasks)
    /\ UNCHANGED <<impl, this, deferreds, builds, writes, stops, lastRead,
                   registry, barriers, potentials, lookups, lastCall, buildBundle>>

MapNext ==
    \/ MapGetOrInitSync
    \/ MapGetOrInit
    \/ MapGetOrInitResume
    \/ MapDirty
    \/ MapSync
    \/ MapAddPotential
    \/ MapBundlerWritten

\* The registry with its stop().
MapStopNext ==
    \/ MapNext
    \/ MapStop
    \/ MapStopResume

-----------------------------------------------------------------------------
(* Properties of the unit *)

\* Nothing of the unit is left to run: no compile, no microtask.
Quiescent == CompileActive = {} /\ microtasks = <<>>

\* What the promise write invocation w returned gives.
WriteOutcome(w) ==
    CASE writes[w].ret.kind = "value" ->
            [kind |-> "value", value |-> writes[w].ret.value]
      [] writes[w].ret.kind = "follows" -> Outcome(deferreds, writes[w].ret.deferred)
      [] OTHER -> [kind |-> "pending", value |-> NoArtifact]

\* The incremental sessions esbuild.build() has created.
Sessions ==
    {b \in 1..Len(builds) :
        builds[b].api = "build" /\ builds[b].state # "running" /\ builds[b].ok}

\* C1: at most one backend compile of the unit is active at any instant.
C1_Exclusive == Cardinality(CompileActive) <= 1

\* C2: once nothing of the unit is left to run, the promise the last write()
\* returned, when no dirty() allocated a Deferred after that call, is resolved,
\* and with the result of a compile started at or after the dirty() that
\* preceded the call.
C2_LastWriteFresh ==
    (Quiescent /\ writes # <<>> /\ writes[Len(writes)].atDeferred = this.deferred)
        => LET w == Len(writes) IN
           /\ WriteOutcome(w).kind = "value"
           /\ WriteOutcome(w).value.build > deferreds[writes[w].atDeferred].born

\* C3: after a first write() that completed with the only compile so far,
\* dirty() and two write() calls issued before the next compile settles start
\* exactly one more compile, and both calls resolve to its result.
C3_Scenario ==
    /\ Len(writes) = 3
    /\ \A w \in 1..3 : writes[w].via = "call"
    /\ writes[1].ret.kind = "value" /\ writes[1].ret.value.build = 1
    /\ Len(deferreds) >= 2 /\ deferreds[2].born = 1 /\ deferreds[2].idle
    /\ writes[2].atDeferred = 2 /\ writes[2].called = 1
    /\ writes[3].atDeferred = 2 /\ writes[3].called = 2 /\ writes[3].active = 1

C3_OneMoreCompile ==
    C3_Scenario =>
        /\ Len(builds) = 2
        /\ \A w \in {2, 3} :
              WriteOutcome(w).kind = "value" => WriteOutcome(w).value.build = 2
        /\ Quiescent => \A w \in {2, 3} : WriteOutcome(w).kind = "value"

\* C4: a Deferred that dirty() allocated while a compile was running is
\* resolved by the time nothing of the unit is left to run: the compile's
\* completion starts the next one without a further write().
C4_DirtyWhileBuildingResolves ==
    Quiescent =>
        \A d \in 1..Len(deferreds) : ~deferreds[d].idle => Settled(deferreds, d)

\* C5: a stop() that waits is never left with nothing running: it has a
\* terminal compile (or its continuation) to wait for.
C5_StopDrains ==
    \A s \in 1..Len(stops) : stops[s].pc = "awaitDeferred" => ~Quiescent

\* C8: a promise resolved with a compile's result holds the degraded artifact
\* when the compile failed and the normal one when it succeeded, never a
\* rejection; and rebuild() is only ever called on a session that a successful
\* esbuild.build() created, so a failure does not stop later compiles.
C8_FailureDegrades ==
    /\ \A d \in 1..Len(deferreds) :
          deferreds[d].state = "value" =>
              deferreds[d].value.kind =
                  (IF builds[deferreds[d].value.build].ok THEN "normal" ELSE "degraded")
    /\ \A w \in 1..Len(writes) :
          writes[w].ret.kind = "value" =>
              writes[w].ret.value.kind =
                  (IF builds[writes[w].ret.value.build].ok THEN "normal" ELSE "degraded")
    /\ \A b \in 1..Len(builds) :
          builds[b].api = "rebuild" =>
              \E c \in 1..(b - 1) :
                  builds[c].api = "build" /\ builds[c].ok /\ builds[c].state = "returned"

\* A Deferred holds the degraded artifact of a failed compile and, after a
\* dirty() and a write(), the next Deferred holds a normal artifact.
C8_Witness ==
    \E d \in 1..Len(deferreds), e \in 1..Len(deferreds) :
        /\ d < e
        /\ deferreds[d].state = "value" /\ deferreds[d].value.kind = "degraded"
        /\ deferreds[e].state = "value" /\ deferreds[e].value.kind = "normal"

\* C9: before any stop() the unit has created at most one session; no session
\* is disposed twice; and once every stop() has resolved and nothing is left
\* to run, every session of a compile started before the first stop() has
\* been disposed.
C9_OneSessionDisposedOnce ==
    /\ stops = <<>> => Cardinality(Sessions) <= 1
    /\ \A b \in 1..Len(builds) : builds[b].disposed <= 1
    /\ (Quiescent /\ stops # <<>> /\ \A s \in 1..Len(stops) : stops[s].pc = "done")
          => \A b \in Sessions : b <= stops[1].called => builds[b].disposed = 1

\* C10: a write() called on a clean unit that is not building starts no
\* compile and returns a promise that is already resolved.
C10_CleanWriteNoCompile ==
    \A w \in 1..Len(writes) :
        (writes[w].via = "call" /\ ~writes[w].wasDirty /\ writes[w].active = 0)
            => /\ writes[w].build = 0
               /\ WriteOutcome(w).kind = "value"

\* C11: a Deferred that dirty() allocated while a compile was running (the
\* one read() hands out from then on) is never resolved with the result of a
\* compile started before that dirty(), and the Deferred it replaced is not
\* resolved with the result of the compile that was running: it is chained.
C11_FreshFutureNeverStale ==
    \A d \in 2..Len(deferreds) :
        ~deferreds[d].idle =>
            /\ Outcome(deferreds, d).kind = "value"
                  => Outcome(deferreds, d).value.build > deferreds[d].born
            /\ deferreds[d - 1].state = "value"
                  => deferreds[d - 1].value.build # deferreds[d].born

\* C12: dirty() of a unit is idempotent.  A dirty() call on a unit that is
\* already dirty changes no field of the unit and keeps its pending Deferred;
\* a Deferred is allocated, and this.deferred replaced, only by a dirty() call
\* that takes the unit from clean to dirty.
C12_DirtyIdempotent ==
    [][/\ (BundlerDirty \/ BundleDirty) /\ this._dirty
            => UNCHANGED <<this, deferreds, builds, writes, stops, lastRead,
                           microtasks>>
       /\ this'.deferred # this.deferred \/ Len(deferreds') # Len(deferreds)
            => /\ BundlerDirty \/ BundleDirty
               /\ ~this._dirty
               /\ this'._dirty
               /\ Len(deferreds') = Len(deferreds) + 1
               /\ this'.deferred = Len(deferreds')]_vars

\* A dirty unit whose pending Deferred a clean-to-dirty dirty() allocated, at a
\* point where the caller can call dirty() again.
C12_Witness ==
    /\ this._dirty
    /\ this.deferred >= 2
    /\ deferreds[this.deferred].state = "pending"
    /\ HostTick

\* The write() invocations that have captured Deferred d and await their
\* compile.
InFlight(d) ==
    {w \in 1..Len(writes) :
        writes[w].pc \in {"awaitBundle", "awaitBuild"} /\ writes[w].deferred = d}

C17_ResolvedOnce ==
    \A d \in 1..Len(deferreds) :
        /\ deferreds[d].resolveCalls <= 1
        /\ deferreds[d].state # "cycle"
        /\ deferreds[d].state = "chain" => deferreds[d].to > d

\* C18: every "Compiling done" line of the log comes right after a
\* "Compiling to ..." line: a start line is followed by at most one done
\* line, and no done line is without a start line of its own.
C18_DoneAfterOwnStart ==
    \A k \in 1..LogLen :
        LogAt(k) = "done" => k > 1 /\ LogAt(k - 1) = "start"

\* C20: whenever _dirty is false and the unit has no build in progress, the
\* unit's Deferred gives a compile's result; and whenever _dirty is false, the
\* unit's Deferred is resolved or captured by a write() awaiting its compile.
C20_QuiescentResolved ==
    /\ ~this._dirty /\ this.buildsInProgress = 0 /\ this.buildInProgress = null
          => Outcome(deferreds, this.deferred).kind = "value"
    /\ ~this._dirty /\ ~Settled(deferreds, this.deferred)
          => InFlight(this.deferred) # {}

-----------------------------------------------------------------------------
(* Properties of the registry *)

\* C6: a getOrInit() issued while the registry is dirty returns only after a
\* sync() that ran, and propagated to the units, since the call.
C6_LookupWaitsForSync ==
    \A l \in 1..Len(lookups) :
        (lookups[l].wasDirty /\ lookups[l].pc = "returned") => lookups[l].synced

\* A lookup of a file with no unit, issued right after a dirty() that
\* replaced the Deferred, has returned the unit it created.
C6_Witness ==
    \E l \in 1..Len(lookups) :
        /\ lookups[l].wasDirty /\ lookups[l].afterDirty /\ lookups[l].deferred >= 2
        /\ lookups[l].pc = "returned" /\ lookups[l].created /\ lookups[l].synced

\* C7: the registry's dirty() changes no unit and releases no lookup; sync()
\* leaves every unit of the registry dirty, with an unresolved Deferred, and
\* releases every lookup held by the barrier.
C7_DirtyDefersToSync ==
    [][/\ (~registry._dirty /\ registry'._dirty)
            => (bundlers' = bundlers /\ lookups' = lookups)
       /\ (registry._dirty /\ ~registry'._dirty)
            => /\ DOMAIN bundlers' = DOMAIN bundlers
               /\ \A f \in DOMAIN bundlers' :
                     /\ bundlers'[f].this._dirty
                     /\ ~Settled(bundlers'[f].deferreds, bundlers'[f].this.deferred)
               /\ \A l \in 1..Len(lookups) :
                     lookups[l].pc = "await" => lookups'[l].pc = "ready"]_vars

\* Right after the second sync(): both files have units that were built and
\* are dirty again, and a lookup the second barrier held is released.
C7_Witness ==
    /\ ~registry._dirty /\ registry.deferred = 2 /\ barriers[2]
    /\ DOMAIN bundlers = Files
    /\ \A f \in Files : bundlers[f].this._dirty /\ bundlers[f].this.deferred = 2
    /\ \E l \in 1..Len(lookups) : lookups[l].deferred = 2 /\ lookups[l].pc = "ready"

\* C13: dirty() of the registry is idempotent.  A dirty() call on a dirty
\* registry changes neither the flag nor the Deferred, nothing replaces the
\* Deferred while the registry stays dirty, every held getOrInit() awaits the
\* registry's current Deferred, and the sync() that clears the flag leaves no
\* getOrInit() held.
C13_DirtyBurstOneSync ==
    [][/\ MapDirty /\ registry._dirty
            => UNCHANGED <<registry, barriers, bundlers, lookups, microtasks>>
       /\ registry._dirty /\ registry'._dirty
            => registry'.deferred = registry.deferred /\ barriers' = barriers
       /\ \A l \in 1..Len(lookups) :
             lookups[l].pc = "await"
                => /\ registry._dirty
                   /\ lookups[l].deferred = registry.deferred
                   /\ ~barriers[registry.deferred]
       /\ registry._dirty /\ ~registry'._dirty
            => \A l \in 1..Len(lookups') : lookups'[l].pc # "await"]_vars

\* Right after a sync(): it released two lookups of one burst, the second of
\* them issued after a repeated dirty() of that burst.
C13_Witness ==
    /\ ~registry._dirty /\ registry.deferred >= 2
    /\ \E l1, l2 \in 1..Len(lookups) :
        /\ l1 < l2
        /\ \A l \in {l1, l2} :
              /\ lookups[l].deferred = registry.deferred
              /\ lookups[l].wasDirty /\ lookups[l].afterDirty
              /\ lookups[l].pc = "ready" /\ lookups[l].synced

\* C14: a file that has a unit keeps that unit.  No step of the registry
\* removes a file from bundlers or puts a new unit in its place (the unit's
\* count of compiles and its Deferreds never start over), and a lookup of a
\* file that has a unit, getOrInitSync() or getOrInit(), returns that unit
\* as it is.
C14_SameUnitForever ==
    [][\A f \in DOMAIN bundlers :
          /\ f \in DOMAIN bundlers'
          /\ bundlers'[f].nbuilds >= bundlers[f].nbuilds
          /\ Len(bundlers'[f].deferreds) >= Len(bundlers[f].deferreds)
          /\ MapGetOrInitSync \/ MapGetOrInitResume
                => bundlers'[f] = bundlers[f]]_vars

\* A getOrInit() has returned the unit of a file that had one already, a unit
\* that was compiled before.
C14_Witness ==
    \E l \in 1..Len(lookups) :
        /\ lookups[l].pc = "returned" /\ ~lookups[l].created
        /\ lookups[l].file \in DOMAIN bundlers
        /\ bundlers[lookups[l].file].nbuilds >= 1

\* C15: when a stop() of the registry has resolved, every unit it was called
\* on has run its stop() to the end, and so has every unit created by a
\* getOrInit() that was awaiting the registry's Deferred when stop() was
\* called.
C15_StopLeavesNoUnit ==
    \A s \in 1..Len(stopCalls) :
        stopCalls[s].pc = "resolved" =>
            /\ stopCalls[s].units \subseteq stopCalls[s].stopped
            /\ \A l \in stopCalls[s].blocked :
                  lookups[l].pc = "returned" /\ lookups[l].created
                     => lookups[l].file \in stopCalls[s].stopped

C21_ExitCallsDone ==
    \A s \in 1..Len(stops) :
        Quiescent /\ ~buildBundle => stops[s].pc = "done"

UnitNext ==
    \/ BundlerDirty
    \/ BundlerWrite
    \/ BundlerWriteResume
    \/ BundleDirty
    \/ BundleWrite
    \/ BundleWriteWaited
    \/ BundleWriteResume
    \/ Read
    \/ Stop
    \/ StopResume
    \/ CompileSettle
    \/ BundleResume

\* One unit, of either class, under every order of calls and completions.
\* createPreprocessor(): no call of buildBundle yet.
PreInit == buildBundle = FALSE

Init == UnitInit /\ MapInit /\ PreInit

Next == UnitNext

Spec == Init /\ [][Next]_vars

\* The registry and its units.
MapSpecInit == UnitInit /\ impl = "Bundler" /\ MapInit /\ PreInit

MapSpec == MapSpecInit /\ [][MapNext]_vars

MapStopSpec == MapSpecInit /\ [][MapStopNext]_vars

\* The preprocessor and the test entry point's Bundler.
PreSpec == MapSpecInit /\ [][PreNext]_vars

====
